---- MODULE Spec2Model ----
(***************************************************************************)
(* Model of the two transcription scripts transcriber.py and               *)
(* whisper_transcriber.py: the interactive prompts of main(), the          *)
(* enumeration / filtering / ordering of transcribe_multiple_files, and    *)
(* the per-file routing, conversion, transcription and transcript write    *)
(* of transcribe_single_file.                                              *)
(*                                                                         *)
(* Strings are sequences of one-character strings, so that strip, upper,   *)
(* lower, capitalize, splitext, basename, dirname and the regular          *)
(* expression of extract_number are computed character by character.       *)
(***************************************************************************)
EXTENDS Integers, Sequences, FiniteSets, TLC

----------------------------------------------------------------------------
(* Bounds of the model *)

\* largest number of entries the input directory holds before the first run
MaxDir == 2
\* number of program runs over the same file system
MaxRuns == 2

----------------------------------------------------------------------------
(* Characters and the str methods used by the prompts *)

Upp == <<"A","B","C","D","E","F","G","H","I","J","K","L","M",
         "N","O","P","Q","R","S","T","U","V","W","X","Y","Z">>
Low == <<"a","b","c","d","e","f","g","h","i","j","k","l","m",
         "n","o","p","q","r","s","t","u","v","w","x","y","z">>
Digits == <<"0","1","2","3","4","5","6","7","8","9">>

IndexIn(c, alphabet) ==
    IF \E i \in 1..Len(alphabet) : alphabet[i] = c
    THEN CHOOSE i \in 1..Len(alphabet) : alphabet[i] = c
    ELSE 0

\* str.lower() of one character
LowerChar(c) == IF IndexIn(c, Upp) > 0 THEN Low[IndexIn(c, Upp)] ELSE c
\* str.upper() of one character
UpperChar(c) == IF IndexIn(c, Low) > 0 THEN Upp[IndexIn(c, Low)] ELSE c

\* str.lower()
lower(s) == [i \in 1..Len(s) |-> LowerChar(s[i])]
\* str.upper()
upper(s) == [i \in 1..Len(s) |-> UpperChar(s[i])]
\* str.capitalize(): first character upper-cased, the rest lower-cased
capitalize(s) == [i \in 1..Len(s) |-> IF i = 1 THEN UpperChar(s[i]) ELSE LowerChar(s[i])]

\* str.strip(): leading and trailing whitespace removed
strip(s) ==
    LET keep == {i \in 1..Len(s) : s[i] # " "}
    IN  IF keep = {} THEN <<>>
        ELSE LET lo == CHOOSE i \in keep : \A j \in keep : i <= j
                 hi == CHOOSE i \in keep : \A j \in keep : j <= i
             IN  SubSeq(s, lo, hi)

\* index of the last occurrence of character c in s, 0 when there is none (str.rfind + 1)
rfind(s, c) ==
    LET at == {i \in 1..Len(s) : s[i] = c}
    IN  IF at = {} THEN 0 ELSE CHOOSE i \in at : \A j \in at : j <= i

----------------------------------------------------------------------------
(* os.path functions *)

\* os.path.splitext: the extension starts at the last dot, unless only dots precede it
splitext(p) ==
    LET sepIndex == rfind(p, "/")
        dotIndex == rfind(p, ".")
    IN  IF dotIndex > sepIndex /\ \E i \in (sepIndex + 1)..(dotIndex - 1) : p[i] # "."
        THEN <<SubSeq(p, 1, dotIndex - 1), SubSeq(p, dotIndex, Len(p))>>
        ELSE <<p, <<>> >>

\* os.path.join(a, b) for a relative b
join(a, b) == IF a = <<>> THEN b ELSE a \o <<"/">> \o b

\* os.path.basename
basename(p) == SubSeq(p, rfind(p, "/") + 1, Len(p))

\* os.path.dirname
dirname(p) == IF rfind(p, "/") = 0 THEN <<>> ELSE SubSeq(p, 1, rfind(p, "/") - 1)

----------------------------------------------------------------------------
(* Program constants *)

\* the allow-list of extensions
EXTENSIONS_SUPPORTED ==
    {<<".","m","p","3">>, <<".","m","p","4">>, <<".","m","p","e","g">>, <<".","m","p","g">>,
     <<".","m","p","g","a">>, <<".","m","4","a">>, <<".","w","a","v">>, <<".","w","e","b","m">>,
     <<".","m","k","v">>, <<".","a","v","i">>, <<".","f","l","v">>, <<".","m","o","v">>,
     <<".","w","m","v">>, <<".","3","g","p">>, <<".","3","g","2">>, <<".","v","o","b">>,
     <<".","f","l","a","c">>, <<".","a","a","c">>, <<".","o","g","g">>, <<".","w","m","a">>,
     <<".","a","c","3">>, <<".","d","t","s">>, <<".","m","m","f">>, <<".","m","4","r">>,
     <<".","m","p","2">>, <<".","w","v">>, <<".","a","s","f">>, <<".","f","4","v">>,
     <<".","m","2","t","s">>, <<".","m","t","s">>, <<".","r","m">>, <<".","r","m","v","b">>,
     <<".","s","w","f">>, <<".","w","t","v">>}

\* the extensions converted to mp3 before transcription
EXTENSIONS_REQUIRING_CONVERSION ==
    {<<".","m","k","v">>, <<".","a","v","i">>, <<".","f","l","v">>, <<".","m","o","v">>,
     <<".","w","m","v">>, <<".","3","g","p">>, <<".","3","g","2">>, <<".","v","o","b">>,
     <<".","f","l","a","c">>, <<".","a","a","c">>, <<".","o","g","g">>, <<".","w","m","a">>,
     <<".","a","c","3">>, <<".","d","t","s">>, <<".","m","m","f">>, <<".","m","4","r">>,
     <<".","m","p","2">>, <<".","w","v">>, <<".","a","s","f">>, <<".","f","4","v">>,
     <<".","m","2","t","s">>, <<".","m","t","s">>, <<".","r","m">>, <<".","r","m","v","b">>,
     <<".","s","w","f">>, <<".","w","t","v">>}

\* the six model tiers
AVAILABLE_MODELS ==
    {<<"t","i","n","y">>, <<"b","a","s","e">>,
     <<"s","m","a","l","l">>, <<"m","e","d","i","u","m">>,
     <<"l","a","r","g","e","-","v","2">>, <<"l","a","r","g","e","-","v","3">>}

\* the language names
AVAILABLE_LANGUAGES ==
    {<<"A","f","r","i","k","a","a","n","s">>, <<"A","r","a","b","i","c">>,
     <<"A","r","m","e","n","i","a","n">>, <<"A","z","e","r","b","a","i","j","a","n","i">>,
     <<"B","e","l","a","r","u","s","i","a","n">>, <<"B","o","s","n","i","a","n">>,
     <<"B","u","l","g","a","r","i","a","n">>, <<"C","a","t","a","l","a","n">>,
     <<"C","h","i","n","e","s","e">>, <<"C","r","o","a","t","i","a","n">>,
     <<"C","z","e","c","h">>, <<"D","a","n","i","s","h">>,
     <<"D","u","t","c","h">>, <<"E","n","g","l","i","s","h">>,
     <<"E","s","t","o","n","i","a","n">>, <<"F","i","n","n","i","s","h">>,
     <<"F","r","e","n","c","h">>, <<"G","a","l","i","c","i","a","n">>,
     <<"G","e","r","m","a","n">>, <<"G","r","e","e","k">>,
     <<"H","e","b","r","e","w">>, <<"H","i","n","d","i">>,
     <<"H","u","n","g","a","r","i","a","n">>, <<"I","c","e","l","a","n","d","i","c">>,
     <<"I","n","d","o","n","e","s","i","a","n">>, <<"I","t","a","l","i","a","n">>,
     <<"J","a","p","a","n","e","s","e">>, <<"K","a","n","n","a","d","a">>,
     <<"K","a","z","a","k","h">>, <<"K","o","r","e","a","n">>,
     <<"L","a","t","v","i","a","n">>, <<"L","i","t","h","u","a","n","i","a","n">>,
     <<"M","a","c","e","d","o","n","i","a","n">>, <<"M","a","l","a","y">>,
     <<"M","a","r","a","t","h","i">>, <<"M","a","o","r","i">>,
     <<"N","e","p","a","l","i">>, <<"N","o","r","w","e","g","i","a","n">>,
     <<"P","e","r","s","i","a","n">>, <<"P","o","l","i","s","h">>,
     <<"P","o","r","t","u","g","u","e","s","e">>, <<"R","o","m","a","n","i","a","n">>,
     <<"R","u","s","s","i","a","n">>, <<"S","e","r","b","i","a","n">>,
     <<"S","l","o","v","a","k">>, <<"S","l","o","v","e","n","i","a","n">>,
     <<"S","p","a","n","i","s","h">>, <<"S","w","a","h","i","l","i">>,
     <<"S","w","e","d","i","s","h">>, <<"T","a","g","a","l","o","g">>,
     <<"T","a","m","i","l">>, <<"T","h","a","i">>,
     <<"T","u","r","k","i","s","h">>, <<"U","k","r","a","i","n","i","a","n">>,
     <<"U","r","d","u">>, <<"V","i","e","t","n","a","m","e","s","e">>,
     <<"W","e","l","s","h">>}


\* available_choises of get_order_criterion
ORDER_CHOICES == {<<"1">>, <<"2">>, <<"3">>, <<"4">>, <<"5">>, <<"6">>}

\* the two programs of the repository
Scripts == {"transcriber", "whisper_transcriber"}

----------------------------------------------------------------------------
(* extract_number: re.search(r'\((\d+)\)', filename), then int(match.group(1)) *)

\* Python's None, for the Optional[int] result of extract_number
None == -1

IsDigit(c) == IndexIn(c, Digits) > 0

\* int() of a string of decimal digits
RECURSIVE ToInt(_)
ToInt(ds) ==
    IF ds = <<>> THEN 0
    ELSE ToInt(SubSeq(ds, 1, Len(ds) - 1)) * 10 + (IndexIn(ds[Len(ds)], Digits) - 1)

\* end of the longest run of digits that starts right after position i (\d+ is greedy)
DigitRunEnd(s, i) ==
    CHOOSE j \in i..Len(s) :
        /\ \A k \in (i + 1)..j : IsDigit(s[k])
        /\ (j = Len(s) \/ ~IsDigit(s[j + 1]))

\* the pattern \((\d+)\) matches at position i
MatchesAt(s, i) ==
    /\ s[i] = "("
    /\ DigitRunEnd(s, i) > i
    /\ DigitRunEnd(s, i) < Len(s)
    /\ s[DigitRunEnd(s, i) + 1] = ")"

extract_number(filename) ==
    LET at == {i \in 1..Len(filename) : MatchesAt(filename, i)}
    IN  IF at = {} THEN None
        ELSE LET first == CHOOSE i \in at : \A j \in at : i <= j
             IN  ToInt(SubSeq(filename, first + 1, DigitRunEnd(filename, first)))

----------------------------------------------------------------------------
(* list.sort(key=..., reverse=...): a stable sort *)

\* a sort key: a number, or float('inf')
Num(v) == [inf |-> FALSE, v |-> v]
Inf == [inf |-> TRUE, v |-> 0]

KeyLess(k1, k2) == ~k1.inf /\ (k2.inf \/ k1.v < k2.v)

\* SortsBefore of a sort that sorts ascending and then reverses the list
SortsBefore_reversing_ties(keys, reverse, j, i) ==
    \/ IF reverse THEN KeyLess(keys[i], keys[j]) ELSE KeyLess(keys[j], keys[i])
    \/ /\ ~KeyLess(keys[i], keys[j])
       /\ ~KeyLess(keys[j], keys[i])
       /\ IF reverse THEN i < j ELSE j < i

\* element j of the list stands before element i after the sort: by key, ties keeping
\* the original order (also with reverse=True)
SortsBefore(keys, reverse, j, i) ==
    \/ IF reverse THEN KeyLess(keys[i], keys[j]) ELSE KeyLess(keys[j], keys[i])
    \/ /\ ~KeyLess(keys[i], keys[j])
       /\ ~KeyLess(keys[j], keys[i])
       /\ j < i

\* seq sorted by keys (keys[i] is the key of seq[i])
sort(seq, keys, reverse) ==
    LET n == Len(seq)
        rank(i) == Cardinality({j \in 1..n : SortsBefore(keys, reverse, j, i)}) + 1
    IN  [r \in 1..n |-> seq[CHOOSE i \in 1..n : rank(i) = r]]

----------------------------------------------------------------------------
(* The file system: the input directory "in", the output directory "out" *)

IN_DIR == <<"i","n">>
OUT_DIR == <<"o","u","t">>
\* a path that does not exist
MISSING == <<"z","z">>

\* names of the directory entries the runs are checked on
A2 == <<"a","(","2",")",".","w","a","v">>
A10 == <<"a","(","1","0",")",".","M","K","V">>
BAVI == <<"b",".","a","v","i">>
BMP3 == <<"b",".","m","p","3">>
CTXT == <<"c",".","t","x","t">>
DWAV == <<"d",".","w","a","v">>

\* content of a file that was not produced by the program
Orig(name) == [tag |-> "orig", of |-> name]

\* the entries the input directory may hold before the first run: name, kind,
\* creation time, modification time, content
Universe ==
    << [name |-> A2,   kind |-> "file", ctime |-> 2, mtime |-> 1, content |-> Orig(A2)],
       [name |-> A10,  kind |-> "file", ctime |-> 1, mtime |-> 2, content |-> Orig(A10)],
       [name |-> BAVI, kind |-> "file", ctime |-> 1, mtime |-> 1, content |-> Orig(BAVI)],
       [name |-> BMP3, kind |-> "file", ctime |-> 3, mtime |-> 1, content |-> Orig(BMP3)],
       [name |-> CTXT, kind |-> "file", ctime |-> 1, mtime |-> 1, content |-> Orig(CTXT)],
       [name |-> DWAV, kind |-> "dir",  ctime |-> 2, mtime |-> 2, content |-> Orig(DWAV)] >>

\* the entries of Universe at the indices I, in ascending or descending index order
Listing(I, descending) ==
    LET n == Cardinality(I)
        rank(i) == Cardinality({j \in I : IF descending THEN j > i ELSE j < i}) + 1
    IN  [r \in 1..n |-> Universe[CHOOSE i \in I : rank(i) = r]]

\* the directories a run can start from
Directories ==
    {Listing(I, d) : I \in {J \in SUBSET (1..Len(Universe)) : Cardinality(J) <= MaxDir},
                     d \in BOOLEAN}

VARIABLES
    script,           \* which of the two programs runs
    runs,             \* number of runs started so far
    inDir,            \* entries of the input directory, in enumeration order
    outDir,           \* files of the output directory: name -> text
    pc,               \* position of main()
    retry,            \* the prompt at pc has already rejected an answer
    answ,             \* the local answ of the prompt function at pc
    device_answ,      \* answ of main(): the device choice
    model_name,
    in_path,
    language,
    single_file,
    out_path,
    order_criterion,
    file,             \* file of main(), in the single-file branch
    files,            \* files of transcribe_multiple_files
    idx,              \* position of the for loop in files
    loads,            \* calls of whisper.load_model in this run
    log               \* calls and console messages of this run, in order

vars == <<script, runs, inDir, outDir, pc, retry, answ, device_answ, model_name, in_path,
          language, single_file, out_path, order_criterion, file, files, idx, loads, log>>

fsVars == <<inDir, outDir>>
config == <<device_answ, model_name, in_path, language, single_file, out_path,
            order_criterion, file>>

\* the entry of the input directory named name
Entry(dir, name) == CHOOSE i \in 1..Len(dir) : dir[i].name = name
HasEntry(dir, name, kind) == \E i \in 1..Len(dir) : dir[i].name = name /\ dir[i].kind = kind

\* os.path.isdir
isdir(dir, p) ==
    \/ p \in {IN_DIR, OUT_DIR}
    \/ dirname(p) = IN_DIR /\ HasEntry(dir, basename(p), "dir")

\* os.path.isfile
isfile(dir, out, p) ==
    \/ dirname(p) = IN_DIR /\ HasEntry(dir, basename(p), "file")
    \/ dirname(p) = OUT_DIR /\ basename(p) \in DOMAIN out

\* os.path.exists
exists(dir, out, p) == isdir(dir, p) \/ isfile(dir, out, p)

\* os.listdir: the names in the directory (the sub-directories of "in" are empty)
listdir(dir, p) == IF p = IN_DIR THEN [i \in 1..Len(dir) |-> dir[i].name] ELSE <<>>

\* os.path.getctime, os.path.getmtime of an entry of "in"
getctime(dir, p) == dir[Entry(dir, basename(p))].ctime
getmtime(dir, p) == dir[Entry(dir, basename(p))].mtime

\* a time later than that of every entry
Now(dir) ==
    LET ts == {dir[i].ctime : i \in 1..Len(dir)} \cup {dir[i].mtime : i \in 1..Len(dir)}
    IN  IF ts = {} THEN 1 ELSE (CHOOSE t \in ts : \A u \in ts : u <= t) + 1

\* the file the converter writes at path p from the file at path src
Converted(dir, src, p) ==
    Append(dir, [name |-> basename(p), kind |-> "file", ctime |-> Now(dir),
                 mtime |-> Now(dir),
                 content |-> [tag |-> "mp3", of |-> dir[Entry(dir, basename(src))].content.of]])

\* the text the model returns for a file
Text(content) == [text_of |-> content]

\* open(path, "w") succeeds when the directory of path exists
CanOpenW(dir, p) == isdir(dir, dirname(p))

\* with open(path, "w") as f: f.write(text), in the output directory
WriteFile(out, p, text) ==
    [n \in DOMAIN out \cup {basename(p)} |-> IF n = basename(p) THEN text ELSE out[n]]

----------------------------------------------------------------------------
(* The prompts: what input() may return, and the validation of each prompt *)

DeviceInputs == {<<" ","y">>, <<"N"," ">>, <<"y","e","s">>, <<>>}
ModelInputs == {<<" ","T","i","n","y">>, <<"l","a","r","g","e">>, <<"L","A","R","G","E","-","v","3","!">>}
LanguageInputs == {<<"e","n","g","l","i","s","h"," ">>, <<"I","T","A","L","I","A","N","O">>, <<"e","n","g">>}
OrderInputs == {<<"1">>, <<" ","2">>, <<"3"," ">>, <<"4">>, <<"5">>, <<"6">>, <<"7">>, <<"0">>, <<"1","2">>, <<>>}
InputPathInputs ==
    {<<" ">> \o IN_DIR, MISSING} \cup {join(IN_DIR, Universe[i].name) : i \in 1..Len(Universe)}
OutputPathInputs == {OUT_DIR \o <<" ">>, MISSING, join(IN_DIR, A2)}

\* an event of the run: a call or a console message
Ev(ev, f, path, res) == [ev |-> ev, file |-> f, path |-> path, res |-> res]
Asked(what) == Ev("asked", <<>>, <<>>, what)

\* user_device_choice: the loop condition, negated
device_valid(a) == ~(a # <<"Y">> /\ a # <<"N">>)

\* get_model_name
model_valid(a) == a \in AVAILABLE_MODELS

\* get_input_path
input_path_valid(scr, dir, out, a) ==
    IF scr = "transcriber"
    THEN ~(~exists(dir, out, a) \/ ~(isfile(dir, out, a) \/ isdir(dir, a)))
    ELSE exists(dir, out, a)

\* get_language
language_valid(a) == a \in AVAILABLE_LANGUAGES

\* get_output_path
output_path_valid(scr, dir, out, a) ==
    IF scr = "transcriber" THEN isdir(dir, a) ELSE exists(dir, out, a)

\* get_order_criterion
order_valid(a) == a \in ORDER_CHOICES

\* main() of transcriber.py without its whisper.load_model call
load_in_main_never(scr) == <<>>

\* whisper.load_model: transcriber.py loads the model in main(), after get_model_name
load_in_main(scr) == IF scr = "transcriber" THEN <<Ev("load_model", <<>>, <<>>, "ok")>> ELSE <<>>

user_device_choice ==
    /\ pc = "device"
    /\ \E raw \in DeviceInputs :
        /\ answ' = upper(strip(raw))
        /\ IF device_valid(answ')
           THEN /\ device_answ' = answ'
                /\ pc' = "model"
                /\ retry' = FALSE
                /\ log' = Append(log, Asked("device"))
           ELSE /\ retry' = TRUE
                /\ UNCHANGED <<device_answ, pc, log>>
    /\ UNCHANGED <<script, runs, fsVars, model_name, in_path, language, single_file,
                   out_path, order_criterion, file, files, idx, loads>>

get_model_name ==
    /\ pc = "model"
    /\ \E raw \in ModelInputs :
        /\ answ' = lower(strip(raw))
        /\ IF model_valid(answ')
           THEN /\ model_name' = answ'
                /\ pc' = "input"
                /\ retry' = FALSE
                /\ log' = Append(log, Asked("model")) \o load_in_main(script)
                /\ loads' = loads + Len(load_in_main(script))
           ELSE /\ retry' = TRUE
                /\ UNCHANGED <<model_name, pc, log, loads>>
    /\ UNCHANGED <<script, runs, fsVars, device_answ, in_path, language, single_file,
                   out_path, order_criterion, file, files, idx>>

get_input_path ==
    /\ pc = "input"
    /\ \E raw \in InputPathInputs :
        /\ answ' = strip(raw)
        /\ IF input_path_valid(script, inDir, outDir, answ')
           THEN /\ in_path' = answ'
                /\ pc' = "language"
                /\ retry' = FALSE
                /\ log' = Append(log, Asked("input"))
           ELSE /\ retry' = TRUE
                /\ UNCHANGED <<in_path, pc, log>>
    /\ UNCHANGED <<script, runs, fsVars, device_answ, model_name, language, single_file,
                   out_path, order_criterion, file, files, idx, loads>>

\* get_language, then main's test os.path.isfile(in_path)
get_language ==
    /\ pc = "language"
    /\ \E raw \in LanguageInputs :
        /\ answ' = capitalize(strip(raw))
        /\ IF language_valid(answ')
           THEN /\ language' = answ'
                /\ single_file' = isfile(inDir, outDir, in_path)
                /\ pc' = "output"
                /\ retry' = FALSE
                /\ log' = Append(log, Asked("language"))
           ELSE /\ retry' = TRUE
                /\ UNCHANGED <<language, single_file, pc, log>>
    /\ UNCHANGED <<script, runs, fsVars, device_answ, model_name, in_path,
                   out_path, order_criterion, file, files, idx, loads>>

\* get_output_path with main going on to transcribe_multiple_files without asking the
\* order criterion
get_output_path_without_order_prompt ==
    /\ pc = "output"
    /\ \E raw \in OutputPathInputs :
        /\ answ' = strip(raw)
        /\ IF output_path_valid(script, inDir, outDir, answ')
           THEN /\ out_path' = answ'
                /\ retry' = FALSE
                /\ log' = Append(log, Asked("output"))
                /\ IF single_file
                   THEN /\ file' = basename(in_path)
                        /\ in_path' = dirname(in_path)
                        /\ pc' = "single"
                   ELSE /\ pc' = "list"
                        /\ UNCHANGED <<file, in_path>>
           ELSE /\ retry' = TRUE
                /\ UNCHANGED <<out_path, file, in_path, pc, log>>
    /\ UNCHANGED <<script, runs, fsVars, device_answ, model_name, language, single_file,
                   order_criterion, files, idx, loads>>

\* get_output_path, then main's branch on single_file up to the next call
get_output_path ==
    /\ pc = "output"
    /\ \E raw \in OutputPathInputs :
        /\ answ' = strip(raw)
        /\ IF output_path_valid(script, inDir, outDir, answ')
           THEN /\ out_path' = answ'
                /\ retry' = FALSE
                /\ log' = Append(log, Asked("output"))
                /\ IF single_file
                   THEN /\ file' = basename(in_path)
                        /\ in_path' = dirname(in_path)
                        /\ pc' = "single"
                   ELSE /\ pc' = "order"
                        /\ UNCHANGED <<file, in_path>>
           ELSE /\ retry' = TRUE
                /\ UNCHANGED <<out_path, file, in_path, pc, log>>
    /\ UNCHANGED <<script, runs, fsVars, device_answ, model_name, language, single_file,
                   order_criterion, files, idx, loads>>

\* get_order_criterion: the first answer is stripped, the later ones stripped and lower-cased
get_order_criterion ==
    /\ pc = "order"
    /\ \E raw \in OrderInputs :
        /\ answ' = IF retry THEN lower(strip(raw)) ELSE strip(raw)
        /\ IF order_valid(answ')
           THEN /\ order_criterion' = answ'
                /\ pc' = "list"
                /\ retry' = FALSE
                /\ log' = Append(log, Asked("order"))
           ELSE /\ retry' = TRUE
                /\ UNCHANGED <<order_criterion, pc, log>>
    /\ UNCHANGED <<script, runs, fsVars, device_answ, model_name, in_path, language,
                   single_file, out_path, file, files, idx, loads>>

----------------------------------------------------------------------------
(* transcribe_single_file and convert_to_mp3 *)

\* what the environment can do to a converter run: exit status 0, a failure exit
\* status (no output file), or the process cannot be started (OSError)
ConvOutcomes == {"ok", "fail", "nostart"}
\* what the environment can do to model.transcribe: return a text, or raise
TrOutcomes == {"ok", "fail"}

file_extension(f) == splitext(f)[2]

\* txt_path built from the whole file name instead of its stem
txt_path_keeping_extension(outp, f) == join(outp, f \o <<".","t","x","t">>)

txt_path(outp, f) == join(outp, splitext(f)[1] \o <<".","t","x","t">>)

mp3_path(inp, f) == join(inp, splitext(f)[1] \o <<".","m","p","3">>)

\* file_extension.lower() in EXTENSIONS_SUPPORTED
IsSupported(f) == lower(file_extension(f)) \in EXTENSIONS_SUPPORTED

\* the membership test made on file_extension without lower()
RequiresConversion_case_sensitive(f) == file_extension(f) \in EXTENSIONS_REQUIRING_CONVERSION

\* file_extension.lower() in EXTENSIONS_REQUIRING_CONVERSION
RequiresConversion(f) == lower(file_extension(f)) \in EXTENSIONS_REQUIRING_CONVERSION

\* the conversion done without looking for an existing mp3
MustConvert_always(dir, out, mp3) == TRUE

\* if not os.path.exists(mp3_path): convert_to_mp3(file_path, mp3_path)
MustConvert(dir, out, mp3) == ~exists(dir, out, mp3)

\* convert_to_mp3: subprocess.run with check=True in transcriber.py, without it in
\* whisper_transcriber.py; only CalledProcessError is caught
convert_to_mp3(scr, dir, f, input_path, output_path, conv) ==
    LET call == Ev("convert", f, output_path, conv)
    IN  CASE conv = "nostart" ->
               [dir |-> dir, ev |-> <<call>>, raised |-> TRUE]
          [] conv = "ok" ->
               [dir |-> Converted(dir, input_path, output_path),
                ev |-> <<call, Ev("conv_completed", f, output_path, "msg")>>,
                raised |-> FALSE]
          [] conv = "fail" ->
               [dir |-> dir,
                ev |-> IF scr = "transcriber"
                       THEN <<call, Ev("conv_error", f, output_path, "msg")>>
                       ELSE <<call, Ev("conv_completed", f, output_path, "msg")>>,
                raised |-> FALSE]

\* the file_path handed to model.transcribe: whisper_transcriber.py assigns
\* file_path = os.path.join(in_path, file) again inside the try block
transcribe_path(scr, inp, f) ==
    IF scr = "transcriber" /\ RequiresConversion(f)
    THEN mp3_path(inp, f)
    ELSE join(inp, f)

\* the try block with txt_path opened for writing before model.transcribe is called
transcribe_and_write_open_first(scr, dir, out, f, inp, outp, tr) ==
    LET path == transcribe_path(scr, inp, f)
        txt == txt_path(outp, f)
        ok == tr = "ok" /\ isfile(dir, out, path)
        opened == IF CanOpenW(dir, txt)
                  THEN WriteFile(out, txt, Text([tag |-> "empty", of |-> <<>>]))
                  ELSE out
    IN  IF ~ok
        THEN [out |-> opened,
              ev |-> <<Ev("transcribe", f, path, "fail"), Ev("error", f, <<>>, "msg")>>]
        ELSE IF CanOpenW(dir, txt)
        THEN [out |-> WriteFile(out, txt, Text(dir[Entry(dir, basename(path))].content)),
              ev |-> <<Ev("transcribe", f, path, "ok"), Ev("write", f, txt, "ok"),
                       Ev("completed", f, <<>>, "msg")>>]
        ELSE [out |-> out,
              ev |-> <<Ev("transcribe", f, path, "ok"), Ev("write", f, txt, "fail"),
                       Ev("error", f, <<>>, "msg")>>]

\* the try block: model.transcribe, then the write of result["text"] to txt_path
transcribe_and_write(scr, dir, out, f, inp, outp, tr) ==
    LET path == transcribe_path(scr, inp, f)
        txt == txt_path(outp, f)
        ok == tr = "ok" /\ isfile(dir, out, path)
    IN  IF ~ok
        THEN [out |-> out,
              ev |-> <<Ev("transcribe", f, path, "fail"), Ev("error", f, <<>>, "msg")>>]
        ELSE IF CanOpenW(dir, txt)
        THEN [out |-> WriteFile(out, txt, Text(dir[Entry(dir, basename(path))].content)),
              ev |-> <<Ev("transcribe", f, path, "ok"), Ev("write", f, txt, "ok"),
                       Ev("completed", f, <<>>, "msg")>>]
        ELSE [out |-> out,
              ev |-> <<Ev("transcribe", f, path, "ok"), Ev("write", f, txt, "fail"),
                       Ev("error", f, <<>>, "msg")>>]

\* the conversion step of a file of the conversion subset
conversion_step(scr, dir, out, f, inp, conv) ==
    LET mp3 == mp3_path(inp, f)
        must == MustConvert(dir, out, mp3)
        c == IF must
             THEN convert_to_mp3(scr, dir, f, join(inp, f), mp3, conv)
             ELSE [dir |-> dir, ev |-> <<Ev("already_mp3", f, mp3, "msg")>>, raised |-> FALSE]
    IN  [dir |-> c.dir,
         ev |-> <<Ev("exists", f, mp3, IF must THEN "no" ELSE "yes")>> \o c.ev,
         raised |-> c.raised]

\* the rest of transcribe_single_file once the conversion step c is over
after_conversion(scr, c, out, f, inp, outp, tr, head) ==
    IF c.raised
    THEN [dir |-> c.dir, out |-> out, ev |-> head \o c.ev, raised |-> TRUE]
    ELSE LET t == transcribe_and_write(scr, c.dir, out, f, inp, outp, tr)
         IN  [dir |-> c.dir, out |-> t.out, ev |-> head \o c.ev \o t.ev, raised |-> FALSE]

\* transcribe_single_file: the new directory, the new output directory, the events, and
\* whether an exception leaves the function
transcribe_single_file(scr, dir, out, f, inp, outp, conv, tr) ==
    LET head == <<Ev("dispatch", f, <<>>, "call")>> \o
                (IF scr = "whisper_transcriber"
                 THEN <<Ev("load_model", f, <<>>, "ok")>> ELSE <<>>)
    IN  IF ~IsSupported(f)
        THEN [dir |-> dir, out |-> out, ev |-> head \o <<Ev("skip", f, <<>>, "msg")>>,
              raised |-> FALSE]
        ELSE after_conversion(scr,
                              IF RequiresConversion(f)
                              THEN conversion_step(scr, dir, out, f, inp, conv)
                              ELSE [dir |-> dir, ev |-> <<>>, raised |-> FALSE],
                              out, f, inp, outp, tr, head)

\* number of whisper.load_model calls among events
LoadsIn(ev) == Cardinality({i \in 1..Len(ev) : ev[i].ev = "load_model"})

----------------------------------------------------------------------------
(* transcribe_multiple_files *)

\* filter_files without the os.path.isfile test
filter_files_without_isfile(dir, out, inp) ==
    SelectSeq(listdir(dir, inp), LAMBDA f : lower(splitext(f)[2]) \in EXTENSIONS_SUPPORTED)

\* the comprehension that keeps the regular files with an allow-listed extension
filter_files(dir, out, inp) ==
    SelectSeq(listdir(dir, inp),
              LAMBDA f : isfile(dir, out, join(inp, f))
                         /\ lower(splitext(f)[2]) \in EXTENSIONS_SUPPORTED)

\* order_key with None as the key of a file without a number, instead of float('inf')
order_key_without_sentinel(dir, inp, criterion, x) ==
    CASE criterion \in {<<"1">>, <<"2">>} -> Num(getctime(dir, join(inp, x)))
      [] criterion \in {<<"3">>, <<"4">>} -> Num(getmtime(dir, join(inp, x)))
      [] OTHER -> Num(extract_number(x))

\* the key= lambda of the criterion
order_key(dir, inp, criterion, x) ==
    CASE criterion \in {<<"1">>, <<"2">>} -> Num(getctime(dir, join(inp, x)))
      [] criterion \in {<<"3">>, <<"4">>} -> Num(getmtime(dir, join(inp, x)))
      [] OTHER -> IF extract_number(x) # None THEN Num(extract_number(x)) ELSE Inf

\* files after the filter and the if / elif chain of files.sort calls
ordered_files(dir, out, inp, criterion) ==
    LET fs == filter_files(dir, out, inp)
        keys == [i \in 1..Len(fs) |-> order_key(dir, inp, criterion, fs[i])]
    IN  IF criterion \in {<<"1">>, <<"2">>, <<"3">>, <<"4">>, <<"5">>}
        THEN sort(fs, keys, criterion \in {<<"2">>, <<"4">>})
        ELSE fs

\* transcribe_multiple_files up to the for loop
transcribe_multiple_files ==
    /\ pc = "list"
    /\ files' = ordered_files(inDir, outDir, in_path, order_criterion)
    /\ idx' = 1
    /\ pc' = IF files' = <<>> THEN "done" ELSE "loop"
    /\ UNCHANGED <<script, runs, fsVars, retry, answ, config, loads, log>>

\* the effects of one call of transcribe_single_file on the state
Call(f, after) ==
    \E conv \in ConvOutcomes, tr \in TrOutcomes :
        \E r \in {transcribe_single_file(script, inDir, outDir, f, in_path, out_path, conv, tr)} :
            /\ inDir' = r.dir
            /\ outDir' = r.out
            /\ log' = log \o r.ev
            /\ loads' = loads + LoadsIn(r.ev)
            /\ pc' = IF r.raised THEN "crashed" ELSE after

\* one iteration of: for file in files: transcribe_single_file(...)
loop_transcribe_single_file ==
    /\ pc = "loop"
    /\ idx <= Len(files)
    /\ Call(files[idx], IF idx = Len(files) THEN "done" ELSE "loop")
    /\ idx' = idx + 1
    /\ UNCHANGED <<script, runs, retry, answ, config, files>>

\* main's single-file branch: transcribe_single_file(model, file, in_path, ...)
main_transcribe_single_file ==
    /\ pc = "single"
    /\ Call(file, "done")
    /\ UNCHANGED <<script, runs, retry, answ, config, files, idx>>

----------------------------------------------------------------------------
(* Runs *)

\* the state of a process that has just started
Fresh ==
    /\ pc = "device"
    /\ retry = FALSE
    /\ answ = <<>>
    /\ device_answ = <<>>
    /\ model_name = <<>>
    /\ in_path = <<>>
    /\ language = <<>>
    /\ single_file = FALSE
    /\ out_path = <<>>
    /\ order_criterion = <<>>
    /\ file = <<>>
    /\ files = <<>>
    /\ idx = 0
    /\ loads = 0
    /\ log = <<>>

Init ==
    /\ script \in Scripts
    /\ runs = 1
    /\ inDir \in Directories
    /\ outDir = <<>>
    /\ Fresh

\* the program is started again on the file system the previous run left
run_again ==
    /\ pc \in {"done", "crashed"}
    /\ runs < MaxRuns
    /\ runs' = runs + 1
    /\ pc' = "device"
    /\ retry' = FALSE
    /\ answ' = <<>>
    /\ device_answ' = <<>>
    /\ model_name' = <<>>
    /\ in_path' = <<>>
    /\ language' = <<>>
    /\ single_file' = FALSE
    /\ out_path' = <<>>
    /\ order_criterion' = <<>>
    /\ file' = <<>>
    /\ files' = <<>>
    /\ idx' = 0
    /\ loads' = 0
    /\ log' = <<>>
    /\ UNCHANGED <<script, fsVars>>

Next ==
    \/ user_device_choice
    \/ get_model_name
    \/ get_input_path
    \/ get_language
    \/ get_output_path
    \/ get_order_criterion
    \/ transcribe_multiple_files
    \/ loop_transcribe_single_file
    \/ main_transcribe_single_file
    \/ run_again

Spec == Init /\ [][Next]_vars

----------------------------------------------------------------------------
(* What the properties read off a state *)

\* positions of the calls of transcribe_single_file in the log
DispatchAt == {i \in 1..Len(log) : log[i].ev = "dispatch"}

\* the events of the call that starts at log position d: up to the next call
Segment(d) ==
    LET later == {e \in (d + 1)..Len(log) : log[e].ev = "dispatch"}
    IN  IF later = {} THEN d..Len(log)
        ELSE d..((CHOOSE e \in later : \A x \in later : e <= x) - 1)

\* position in files of the call that log position i belongs to
PositionOf(i) == Cardinality({d \in DispatchAt : d <= i})

\* the files handed to transcribe_single_file so far, in order
Dispatched == [k \in 1..Cardinality(DispatchAt) |->
                 log[CHOOSE d \in DispatchAt : PositionOf(d) = k].file]

\* the run is over, by the end of main() or by an uncaught exception
RunEnded == pc \in {"done", "crashed"}

\* transcribe_multiple_files has just built files and no file has been processed yet
JustListed == idx = 1 /\ pc \in {"loop", "done"}

\* the names a run can meet, classified by hand
A10MP3 == <<"a","(","1","0",")",".","m","p","3">>
ConversionNames == {A10, BAVI}
DirectNames == {A2, BMP3, A10MP3}
UnsupportedNames == {CTXT}
ExpectedMp3(f) == IF f = A10 THEN <<"i","n","/","a","(","1","0",")",".","m","p","3">> ELSE <<"i","n","/","b",".","m","p","3">>
ExpectedTxt(f) ==
    CASE f = A2 -> <<"o","u","t","/","a","(","2",")",".","t","x","t">>
      [] f \in {A10, A10MP3} -> <<"o","u","t","/","a","(","1","0",")",".","t","x","t">>
      [] OTHER -> <<"o","u","t","/","b",".","t","x","t">>

----------------------------------------------------------------------------
(* C1 *)

\* C1: in a multi-file run, when the transcription call (or the transcript write) of the
\* file at position N raises, the error stays inside transcribe_single_file and every
\* file after N is still dispatched: the run ends only after the last file was dispatched.
C1_FailureDoesNotStopBatch ==
    (RunEnded /\ files # <<>>) =>
        \A i \in 1..Len(log) :
            (log[i].ev \in {"transcribe", "write"} /\ log[i].res = "fail")
                => Dispatched = files

----------------------------------------------------------------------------
(* C2 *)

\* C2: in both scripts the path given to model.transcribe is <in_path>/<stem>.mp3 for a
\* file of the conversion subset and the file's own path for a directly supported file.
C2_ModelGetsConvertedPath ==
    \A i \in 1..Len(log) :
        log[i].ev = "transcribe" =>
            /\ log[i].file \in ConversionNames => log[i].path = ExpectedMp3(log[i].file)
            /\ log[i].file \in DirectNames => log[i].path = join(IN_DIR, log[i].file)

----------------------------------------------------------------------------
(* C3 *)

\* the regular files of the input directory with an allow-listed extension
ExpectedBatch ==
    {inDir[i].name : i \in {k \in 1..Len(inDir) :
        inDir[k].kind = "file" /\ inDir[k].name \in ConversionNames \cup DirectNames}}

\* C3: for each ordering criterion the sequence transcribe_multiple_files dispatches is a
\* permutation of the directory entries that are regular files with an allow-listed
\* extension: none dropped, none duplicated, no sub-directory, no other extension.
C3_BatchIsPermutationOfFiltered ==
    (JustListed /\ in_path = IN_DIR) =>
        /\ order_criterion \in ORDER_CHOICES
        /\ \A i, j \in 1..Len(files) : files[i] = files[j] => i = j
        /\ {files[i] : i \in 1..Len(files)} = ExpectedBatch

\* a batch under a sorting criterion that reorders the listing and leaves out an entry
C3_Witness ==
    /\ JustListed
    /\ order_criterion = <<"2">>
    /\ Len(files) >= 2
    /\ Len(files) < Len(inDir)
    /\ files # filter_files(inDir, outDir, in_path)

----------------------------------------------------------------------------
(* C4 *)

\* the integer in parentheses of each name, by hand
ParenNumber(f) ==
    CASE f = A2 -> 2
      [] f \in {A10, A10MP3} -> 10
      [] OTHER -> None

\* C4: under criterion "5" a file without a parenthesized integer comes after every
\* file with one, and files with one come in ascending numeric order of the integer
\* extract_number returns ((2) before (10)), not in lexical order of the digits.
C4_NumberedOrder ==
    /\ extract_number(<<"c","l","i","p","_","(","1","2",")",".","w","a","v">>) = 12
    /\ extract_number(<<"c","l","i","p",".","w","a","v">>) = None
    /\ (JustListed /\ order_criterion = <<"5">>) =>
        /\ \A i \in 1..Len(files) : extract_number(files[i]) = ParenNumber(files[i])
        /\ \A i, j \in 1..Len(files) :
              i < j =>
                /\ ParenNumber(files[i]) = None => ParenNumber(files[j]) = None
                /\ (ParenNumber(files[i]) # None /\ ParenNumber(files[j]) # None)
                      => ParenNumber(files[i]) <= ParenNumber(files[j])

\* (10) is listed before (2); the batch has (2) first, then the two files with (10) in
\* their listing order
C4_Witness ==
    /\ JustListed
    /\ order_criterion = <<"5">>
    /\ listdir(inDir, in_path) = <<A10, A2, A10MP3>>
    /\ files = <<A2, A10, A10MP3>>

\* a file without a number is listed first and dispatched last
C4_WitnessMissing ==
    /\ JustListed
    /\ order_criterion = <<"5">>
    /\ listdir(inDir, in_path) = <<BAVI, A2>>
    /\ files = <<A2, BAVI>>

----------------------------------------------------------------------------
(* C5 *)

\* the file a step at pc = "loop" or pc = "single" hands to transcribe_single_file
CurrentFile == IF pc = "loop" THEN files[idx] ELSE file

\* the events a step adds to the log
NewEvents == SubSeq(log', Len(log) + 1, Len(log'))

ConverterInvoked == \E k \in 1..Len(NewEvents) : NewEvents[k].ev = "convert"

HasMp3(dir, f) == \E k \in 1..Len(dir) : join(IN_DIR, dir[k].name) = ExpectedMp3(f)

C5_Step ==
    pc \in {"loop", "single"} =>
        /\ CurrentFile \in ConversionNames => (ConverterInvoked <=> ~HasMp3(inDir, CurrentFile))
        /\ \A k \in 1..Len(inDir) : inDir'[k] = inDir[k]
        /\ Len(inDir') <= Len(inDir) + 1

----------------------------------------------------------------------------
(* C6 *)

\* C6: a failure of the conversion step, be it a failure exit status of the converter or
\* the converter process not starting, is caught inside convert_to_mp3 and never leaves
\* transcribe_single_file: no conversion failure aborts the batch.
C6_ConversionFailureNeverAborts ==
    \A i \in 1..Len(log) :
        (log[i].ev = "convert" /\ log[i].res # "ok") => ~(pc = "crashed" /\ i = Len(log))

----------------------------------------------------------------------------
(* C7 *)

\* C7: when the converter exits with a failure status and leaves no .mp3, the error is
\* reported and no 'Conversion completed' message is logged, the transcription attempt
\* targets the missing converted path and fails, and no transcript is written.
C7_FailedConversionSkipsFile ==
    \A d \in DispatchAt : \A i \in Segment(d) :
        (log[i].ev = "convert" /\ log[i].res = "fail") =>
            /\ \E k \in Segment(d) : log[k].ev = "conv_error"
            /\ \A k \in Segment(d) : log[k].ev # "conv_completed"
            /\ \A k \in Segment(d) : log[k].ev # "write"
            /\ \A k \in Segment(d) :
                  log[k].ev = "transcribe" => (log[k].path = log[i].path /\ log[k].res = "fail")

----------------------------------------------------------------------------
(* C8 *)

\* the events named ev of the call that starts at log position d
EventsOf(d, ev) == {k \in Segment(d) : log[k].ev = ev}

\* C8: transcribe_single_file routes a file by its lower-cased extension into exactly one
\* of: (a) not allow-listed: skipped, with no converter call, no transcription call and
\* no transcript write; (b) conversion subset: the .mp3 check and the converter call come
\* before the transcription call; (c) directly supported: transcribed as it is, the
\* converter never invoked. ".MKV" is routed like ".mkv".
C8_RoutingByExtension ==
    \A d \in DispatchAt :
        LET f == log[d].file
        IN  /\ f \in UnsupportedNames \cup ConversionNames \cup DirectNames
            /\ f \in UnsupportedNames =>
                  /\ EventsOf(d, "skip") # {}
                  /\ \A k \in Segment(d) :
                        log[k].ev \notin {"exists", "convert", "transcribe", "write"}
            /\ f \in ConversionNames =>
                  /\ EventsOf(d, "skip") = {}
                  /\ Cardinality(EventsOf(d, "exists")) = 1
                  /\ \A k \in EventsOf(d, "transcribe") :
                        \A e \in EventsOf(d, "exists") \cup EventsOf(d, "convert") : e < k
            /\ f \in DirectNames =>
                  /\ EventsOf(d, "skip") = {}
                  /\ EventsOf(d, "exists") \cup EventsOf(d, "convert") = {}
                  /\ Cardinality(EventsOf(d, "transcribe")) = 1
                  /\ \A k \in EventsOf(d, "transcribe") : log[k].path = join(IN_DIR, f)

\* a(10).MKV was checked for its .mp3, converted, and only then transcribed
C8_Witness ==
    \E d \in DispatchAt :
        /\ log[d].file = A10
        /\ \E e \in EventsOf(d, "exists"), c \in EventsOf(d, "convert"),
              k \in EventsOf(d, "transcribe") : e < c /\ c < k

----------------------------------------------------------------------------
(* C9 *)

\* positions of the transcript writes that succeeded
WritesOk == {i \in 1..Len(log) : log[i].ev = "write" /\ log[i].res = "ok"}

\* the text model.transcribe returned right before the write at log position i
TextWrittenAt(i) == Text(inDir[Entry(inDir, basename(log[i - 1].path))].content)

\* C9: a successful transcription of <stem><ext> writes its text to exactly
\* <out_path>/<stem>.txt, replacing what was there: when several files of a batch share a
\* stem the .txt holds the text of the last one transcribed successfully, and there can
\* be fewer transcripts than successfully transcribed files.
C9_TranscriptAtStemTxt ==
    /\ txt_path(<<"/","o","u","t">>, <<"m","e","e","t","i","n","g",".","w","a","v">>) = <<"/","o","u","t","/","m","e","e","t","i","n","g",".","t","x","t">>
    /\ \A i \in WritesOk :
          /\ log[i].path = ExpectedTxt(log[i].file)
          /\ log[i - 1].ev = "transcribe" /\ log[i - 1].res = "ok"
          /\ basename(log[i].path) \in DOMAIN outDir
          /\ (\A j \in WritesOk : log[j].path = log[i].path => j <= i)
                => outDir[basename(log[i].path)] = TextWrittenAt(i)

\* two files with the stem b were transcribed successfully and one transcript exists:
\* it holds the text of the second
C9_Witness ==
    \E i, j \in WritesOk :
        /\ i < j
        /\ log[i].file # log[j].file
        /\ log[i].path = log[j].path
        /\ TextWrittenAt(i) # TextWrittenAt(j)
        /\ DOMAIN outDir = {basename(log[j].path)}
        /\ outDir[basename(log[j].path)] = TextWrittenAt(j)

----------------------------------------------------------------------------
(* C10 *)

\* prompts that have returned when main() is at pc
After(prompt) ==
    CASE prompt = "device" -> pc # "device"
      [] prompt = "model" -> pc \notin {"device", "model"}
      [] prompt = "input" -> pc \notin {"device", "model", "input"}
      [] prompt = "language" -> pc \notin {"device", "model", "input", "language"}
      [] prompt = "output" -> pc \notin {"device", "model", "input", "language", "output"}
      [] prompt = "order" -> pc \in {"list", "loop"} \/ (RunEnded /\ ~single_file)

\* C10: in both scripts every prompt returns only a legal value: device answer "Y" or
\* "N", one of the six models, an existing file or directory as input path, a language
\* of the list, an existing directory as output path, a criterion "1".."6"; no file is
\* processed with an output path that is not an existing directory.
C10_PromptsReturnLegalValues ==
    /\ After("device") => device_answ \in {<<"Y">>, <<"N">>}
    /\ After("model") => model_name \in AVAILABLE_MODELS
    /\ After("input") => (isfile(inDir, outDir, in_path) \/ isdir(inDir, in_path))
    /\ After("language") => language \in AVAILABLE_LANGUAGES
    /\ After("output") => isdir(inDir, out_path)
    /\ After("order") => order_criterion \in ORDER_CHOICES
    /\ DispatchAt # {} => isdir(inDir, out_path)

----------------------------------------------------------------------------
(* C11 *)

\* the prompts that have returned in this run, in order
AskedSeq ==
    LET at == {i \in 1..Len(log) : log[i].ev = "asked"}
    IN  [k \in 1..Cardinality(at) |->
           log[CHOOSE i \in at : Cardinality({j \in at : j <= i}) = k].res]

\* the steps made for a file: the .mp3 check, the converter call, the transcription
\* call, the transcript write (and the call itself and its messages)
FileSteps == {i \in 1..Len(log) : log[i].file # <<>>}

\* position of file f in the ordered sequence of the run
PlaceOf(f) == IF files = <<>> THEN 1 ELSE CHOOSE i \in 1..Len(files) : files[i] = f

\* C11: a run is strictly sequential: no file is processed before all prompts have
\* returned, the ordering prompt being asked only when the input path is a directory;
\* every step of a file comes before any step of a file later in the ordered sequence,
\* so never more than one file is in progress.
C11_StrictlySequential ==
    /\ \A i \in 1..Len(log) : \A d \in DispatchAt : log[i].ev = "asked" => i < d
    /\ FileSteps # {} =>
          AskedSeq = IF file # <<>>
                     THEN <<"device", "model", "input", "language", "output">>
                     ELSE <<"device", "model", "input", "language", "output", "order">>
    /\ (Len(AskedSeq) = 6) => (~single_file /\ isdir(inDir, in_path) /\ AskedSeq[6] = "order")
    /\ \A i \in FileSteps :
          /\ IF files = <<>> THEN log[i].file = file
                             ELSE \E k \in 1..Len(files) : files[k] = log[i].file
          /\ (i - 1) \in FileSteps =>
                /\ PlaceOf(log[i - 1].file) <= PlaceOf(log[i].file)
                /\ (log[i].ev = "dispatch") = (PlaceOf(log[i - 1].file) < PlaceOf(log[i].file))
    /\ Dispatched = SubSeq(IF files = <<>> THEN <<file>> ELSE files, 1, Len(Dispatched))

\* two files of a batch: the first was converted and transcribed, then the second
\* transcribed, after the six prompts
C11_Witness ==
    /\ Len(AskedSeq) = 6
    /\ Len(Dispatched) = 2
    /\ \E c, t1, t2 \in FileSteps :
          /\ log[c].ev = "convert" /\ log[c].file = files[1]
          /\ log[t1].ev = "transcribe" /\ log[t1].file = files[1]
          /\ log[t2].ev = "transcribe" /\ log[t2].file = files[2]
          /\ c < t1 /\ t1 < t2

----------------------------------------------------------------------------
(* C12 *)

\* position of the entry named f in the enumeration of the input directory
ListPos(f) == CHOOSE i \in 1..Len(inDir) : inDir[i].name = f

\* the sort key of the entry named f under the criterion of the run, read off the
\* directory entry and the table of parenthesized integers
TieKey(f) ==
    CASE order_criterion \in {<<"1">>, <<"2">>} -> inDir[ListPos(f)].ctime
      [] order_criterion \in {<<"3">>, <<"4">>} -> inDir[ListPos(f)].mtime
      [] OTHER -> ParenNumber(f)

\* C12: under criteria "1" to "5" files with equal sort keys are processed in their
\* directory-enumeration order, also under the descending criteria "2" and "4" (ties are
\* not reversed); under criterion "6" the sequence is the filtered enumeration order.
C12_TiesKeepEnumerationOrder ==
    (JustListed /\ in_path = IN_DIR) =>
        \A i, j \in 1..Len(files) :
            (i < j /\ (order_criterion = <<"6">> \/ TieKey(files[i]) = TieKey(files[j])))
                => ListPos(files[i]) < ListPos(files[j])

\* newest modification first: the converted b.mp3 moves to the front, b.avi and
\* a(2).wav, modified at the same time, keep their enumeration order
C12_Witness ==
    /\ JustListed
    /\ order_criterion = <<"4">>
    /\ listdir(inDir, in_path) = <<BAVI, A2, BMP3>>
    /\ files = <<BMP3, BAVI, A2>>

----------------------------------------------------------------------------
(* C13 *)

\* positions of the whisper.load_model calls in the log
LoadsAt == {i \in 1..Len(log) : log[i].ev = "load_model"}

\* C13: transcriber.py loads the model exactly once per run, before the input path is
\* asked and before any file is processed, and no file reloads it; whisper_transcriber.py
\* loads it once per call of transcribe_single_file, so its loads equal the number of
\* files dispatched, the files skipped as unsupported included.
C13_ModelLoads ==
    /\ loads = Cardinality(LoadsAt)
    /\ script = "transcriber" =>
          /\ loads = IF After("model") THEN 1 ELSE 0
          /\ \A i \in LoadsAt :
                /\ i > 1 /\ log[i - 1] = Asked("model")
                /\ \A k \in 1..Len(log) :
                      (log[k].ev = "dispatch" \/ log[k] = Asked("input")) => i < k
    /\ script = "whisper_transcriber" =>
          /\ loads = Cardinality(DispatchAt)
          /\ \A d \in DispatchAt : Cardinality(EventsOf(d, "load_model")) = 1
          /\ \A i \in LoadsAt : \E d \in DispatchAt : i \in Segment(d)

\* whisper_transcriber.py has dispatched two files and loaded the model twice
C13_Witness ==
    /\ script = "whisper_transcriber"
    /\ RunEnded
    /\ Cardinality(DispatchAt) = 2
    /\ loads = 2

\* whisper_transcriber.py loaded the model for a file it then skipped
C13_WitnessSkipped ==
    /\ script = "whisper_transcriber"
    /\ loads = 1
    /\ \E i \in 1..Len(log) : log[i].ev = "skip"

\* transcriber.py has dispatched two files with the one model loaded in main
C13_WitnessOnce ==
    /\ script = "transcriber"
    /\ RunEnded
    /\ Cardinality(DispatchAt) = 2
    /\ loads = 1

----------------------------------------------------------------------------
(* C14 *)

\* the names of the .mp3 files the converter has produced in this run
ConvertedNow ==
    {basename(log[i].path) : i \in {k \in 1..Len(log) :
        log[k].ev = "convert" /\ log[k].res = "ok"}}

\* C14: the batch is a snapshot of the input directory taken before any file is
\* processed: a .mp3 converted during the run is never added to it, every file of the
\* snapshot is dispatched exactly once and the run performs exactly as many dispatches
\* as the snapshot has files; a file and its converted .mp3 are both in the batch only
\* in a later run, and then both target the same <stem>.txt.
C14_SnapshotDispatchedOnce ==
    files # <<>> =>
        /\ \A k \in 1..Len(files) : files[k] \notin ConvertedNow
        /\ Dispatched = SubSeq(files, 1, Len(Dispatched))
        /\ RunEnded => Dispatched = files
        /\ \A i, j \in 1..Len(files) :
              (files[i] \in ConversionNames /\ join(in_path, files[j]) = ExpectedMp3(files[i]))
                  => /\ runs > 1 \/ files[j] = BMP3
                     /\ txt_path(out_path, files[i]) = txt_path(out_path, files[j])

\* the part of C14 that does not depend on the run reaching its end
C14_SnapshotNeverGrows ==
    files # <<>> =>
        /\ \A k \in 1..Len(files) : files[k] \notin ConvertedNow
        /\ Dispatched = SubSeq(files, 1, Len(Dispatched))
        /\ (RunEnded /\ pc # "crashed") => Dispatched = files

\* a second run has a(10).MKV and the a(10).mp3 of the first run in its batch
C14_LaterRunHasBoth ==
    /\ runs = 2
    /\ \E i, j \in 1..Len(files) : files[i] = A10 /\ files[j] = A10MP3

----------------------------------------------------------------------------
(* C15 *)

\* the step is a call of transcribe_single_file whose model.transcribe raised
TranscriptionRaised ==
    /\ pc \in {"loop", "single"}
    /\ \E k \in 1..Len(NewEvents) :
          NewEvents[k].ev = "transcribe" /\ NewEvents[k].res = "fail"

C15_Step ==
    /\ TranscriptionRaised => outDir' = outDir
    /\ pc \in {"loop", "single"} =>
          \A k \in 1..Len(NewEvents) :
              NewEvents[k].ev = "write" =>
                  /\ k > 1
                  /\ NewEvents[k - 1].ev = "transcribe"
                  /\ NewEvents[k - 1].res = "ok"

\* C15: when the transcription call of a file raises, nothing is written for that file:
\* a transcript already at <out_path>/<stem>.txt keeps its content and no empty or
\* partial .txt is created, the output file being opened only after the call returned.
C15_FailedTranscriptionWritesNothing == [][C15_Step]_vars

\* the transcription of a file with the stem b raised in this run and wrote nothing;
\* out/b.txt still holds the text an earlier run wrote
C15_Witness ==
    /\ runs = 2
    /\ \E i \in 1..Len(log) :
          /\ log[i].ev = "transcribe" /\ log[i].res = "fail"
          /\ log[i].file \in {BAVI, BMP3}
    /\ \A i \in 1..Len(log) : log[i].ev # "write"
    /\ DOMAIN outDir = {basename(ExpectedTxt(BAVI))}
    /\ outDir[basename(ExpectedTxt(BAVI))].text_of.of \in {BAVI, BMP3}

====
